---- MODULE Spec2Model ----
(***************************************************************************)
(* Backup orchestration service: the Schedule Manager and its reload       *)
(* notifications, the Periodic Dispatcher (Celery beat DynamicScheduler),  *)
(* and the Task Executor's create_backup (Execute backup) with retention   *)
(* and local-artifact cleanup.                                             *)
(*                                                                         *)
(* Two specifications share the variables:                                 *)
(*   SpecSched - Schedule Manager calls, the reload topic, the Dispatcher  *)
(*   SpecExec  - worker processes running create_backup against adapters   *)
(* Each leaves the other's variables unchanged.                            *)
(***************************************************************************)
EXTENDS Integers, Sequences, FiniteSets, TLC

\* Optional values: Nil is Python's None, Some(x) a present value
Nil == <<>>
Some(x) == <<x>>
Val(o) == o[1]

(***************************************************************************)
(* Bounds                                                                  *)
(***************************************************************************)
MaxSchedules == 2     \* rows ever inserted into backup_schedules
MaxCalls == 3         \* Schedule Manager calls in one behaviour
MaxFires == 1         \* schedule entries fired by the Dispatcher's tick loop
MaxRuns == 2          \* create_backup invocations in one behaviour
MaxTime == 4          \* last second of the wall clock

\* tenant ids are uuid-like words over [a-f0-9-]
Tenants == {"a1", "b2"}

(***************************************************************************)
(* Cron expressions are character sequences; parse_cron_exp splits them on *)
(* the single space character and requires exactly five parts.             *)
(***************************************************************************)
CronDaily == <<"0", " ", "2", " ", "*", " ", "*", " ", "*">>
CronFour == <<"*", " ", "*", " ", "*", " ", "*">>
CronExps == {CronDaily, CronFour}

RECURSIVE SplitFrom(_, _, _)
SplitFrom(exp, i, cur) ==
    IF i > Len(exp) THEN <<cur>>
    ELSE IF exp[i] = " " THEN <<cur>> \o SplitFrom(exp, i + 1, <<>>)
    ELSE SplitFrom(exp, i + 1, Append(cur, exp[i]))

\* str.split(" ")
Split(exp) == SplitFrom(exp, 1, <<>>)

\* parse_cron_exp: the crontab's five fields, or the ValueError it raises
parse_cron_exp(exp) ==
    LET parts == Split(exp)
    IN  IF Len(parts) # 5
        THEN [raised |-> TRUE, crontab |-> <<>>]
        ELSE [raised |-> FALSE, crontab |-> parts]

(***************************************************************************)
(* State                                                                   *)
(***************************************************************************)
VARIABLES
    schedules,   \* backup_schedules table: id -> row
    nextId,      \* autoincrement primary key of backup_schedules
    version,     \* commits made on backup_schedules so far
    mgr,         \* the Schedule Manager call in flight
    calls,       \* Schedule Manager calls started so far
    published,   \* messages ever published on the reload topic
    queue,       \* reload messages published and not yet acknowledged
    beat,        \* the Dispatcher: position and what its last load read
    table,       \* the Dispatcher's in-memory schedule table: key -> entry
    fired,       \* tasks the Dispatcher has sent to the worker pool
    exec,        \* per worker process: the create_backup invocation it runs
    runs,        \* create_backup invocations started so far
    localFiles,  \* paths that exist in the workers' working directory
    remote,      \* per destination url: the stored artifacts (name, modified)
    now,         \* wall clock, in seconds
    adapter,     \* one Destination adapter with an uploader and a lister on it
    restore      \* the restore_from_backup invocation of a worker process

schedVars == <<schedules, nextId, version, mgr, calls, published, queue, beat, table, fired>>

execVars == <<exec, runs, localFiles, remote, now>>

adapterVars == <<adapter>>

restoreVars == <<restore>>

vars == <<schedules, nextId, version, mgr, calls, published, queue, beat, table, fired,
          exec, runs, localFiles, remote, now, adapter, restore>>

(***************************************************************************)
(* Schedule Manager (backup_schedule_manager.py).  Rows are models/db.py   *)
(* Schedule; name, next_run and the created_at/updated_at stamps carry no  *)
(* behaviour here and are left out.                                        *)
(***************************************************************************)
ScheduleModel(id, tenant_id, source_id, destination_id, keep_n, schedule, is_active) ==
    [id |-> id, tenant_id |-> tenant_id, source_id |-> source_id,
     destination_id |-> destination_id, keep_n |-> keep_n,
     schedule |-> schedule, is_active |-> is_active, last_run |-> Nil]

Rows == {schedules[i] : i \in DOMAIN schedules}

MgrIdle == [pc |-> "idle", op |-> "none", tenant_id |-> "none", schedule_id |-> 0,
            found |-> FALSE, pending |-> Nil, todo |-> <<>>,
            committed |-> FALSE, sent |-> 0, result |-> {}, outcome |-> "none",
            value |-> "none"]

\* StepsOf with the publish moved ahead of the commit
StepsOfPublishFirst(op) ==
    CASE op \in {"create_schedule", "update_schedule", "delete_schedule",
                 "toggle_schedule"} -> <<"notify", "commit">>
      [] op = "update_last_run" -> <<"commit">>
      [] OTHER -> <<>>

\* StepsOf with update_last_run ending in a reload notification like the rest
StepsOfLastRunNotifies(op) ==
    CASE op \in {"create_schedule", "update_schedule", "delete_schedule",
                 "toggle_schedule", "update_last_run"} -> <<"commit", "notify">>
      [] OTHER -> <<>>

\* What a call does once its target is in hand, in program order: commit the
\* mutation, publish the reload notification
StepsOf(op) ==
    CASE op = "create_schedule" -> <<"commit", "notify">>
      [] op = "update_schedule" -> <<"commit", "notify">>
      [] op = "delete_schedule" -> <<"commit", "notify">>
      [] op = "toggle_schedule" -> <<"commit", "notify">>
      [] op = "update_last_run" -> <<"commit">>
      [] OTHER -> <<>>

\* the filter with the tenant predicate dropped
MatchesIdOnly(row, schedule_id, tenant_id) ==
    row.id = schedule_id

\* get_schedule's filter: (id == schedule_id) & (tenant_id == tenant_id)
Matches(row, schedule_id, tenant_id) ==
    row.id = schedule_id /\ row.tenant_id = tenant_id

\* get_schedule: .first() of the filtered rows, as a set of at most one row
get_schedule(schedule_id, tenant_id) ==
    {r \in Rows : Matches(r, schedule_id, tenant_id)}

CanCall == mgr.pc = "idle" /\ calls < MaxCalls

\* a mutating call whose target was found: the session holds the changed
\* object (Nil for a delete) and the remaining steps
Mutating(op, tenant_id, schedule_id, pending) ==
    [MgrIdle EXCEPT !.pc = "run", !.op = op, !.tenant_id = tenant_id,
                    !.schedule_id = schedule_id, !.found = TRUE,
                    !.pending = pending, !.todo = StepsOf(op)]

\* a not-found branch that still publishes the reload notification
NotFoundNotifies(op, tenant_id, schedule_id) ==
    [MgrIdle EXCEPT !.pc = "run", !.op = op, !.tenant_id = tenant_id,
                    !.schedule_id = schedule_id, !.todo = <<"notify">>]

\* "if not schedule_obj: return None" (False for delete_schedule)
NotFound(op, tenant_id, schedule_id) ==
    [MgrIdle EXCEPT !.pc = "return", !.op = op, !.tenant_id = tenant_id,
                    !.schedule_id = schedule_id, !.outcome = "not_found",
                    !.value = IF op = "delete_schedule" THEN "False" ELSE "None"]

\* a pure read returning rows
Read(op, tenant_id, schedule_id, rows) ==
    [MgrIdle EXCEPT !.pc = "return", !.op = op, !.tenant_id = tenant_id,
                    !.schedule_id = schedule_id, !.found = rows # {},
                    !.result = rows, !.outcome = "returned",
                    !.value = IF rows = {} /\ op = "get_schedule" THEN "None" ELSE "rows"]

CreateSchedule(tenant_id, source_id, destination_id, keep_n, schedule, is_active) ==
    /\ CanCall
    /\ nextId <= MaxSchedules
    /\ mgr' = Mutating("create_schedule", tenant_id, nextId,
                       Some(ScheduleModel(nextId, tenant_id, source_id, destination_id,
                                          keep_n, schedule, is_active)))
    /\ calls' = calls + 1
    /\ UNCHANGED <<schedules, nextId, version, published, queue, beat, table, fired, execVars, adapterVars, restoreVars>>

GetSchedule(schedule_id, tenant_id) ==
    /\ CanCall
    /\ mgr' = Read("get_schedule", tenant_id, schedule_id,
                   get_schedule(schedule_id, tenant_id))
    /\ calls' = calls + 1
    /\ UNCHANGED <<schedules, nextId, version, published, queue, beat, table, fired, execVars, adapterVars, restoreVars>>

ListSchedules(tenant_id, is_active) ==
    /\ CanCall
    /\ mgr' = Read("list_schedules", tenant_id, 0,
                   {r \in Rows : /\ r.tenant_id = tenant_id
                                 /\ (is_active # Nil => r.is_active = Val(is_active))})
    /\ calls' = calls + 1
    /\ UNCHANGED <<schedules, nextId, version, published, queue, beat, table, fired, execVars, adapterVars, restoreVars>>

\* "if x is not None: schedule_obj.x = x"
Opt(new, old) == IF new # Nil THEN Val(new) ELSE old

\* the shape shared by update/delete/toggle/update_last_run: look the target
\* up under (schedule_id, tenant_id), return the not-found value or go on
\* with the changed object
OnTarget(op, schedule_id, tenant_id, change) ==
    LET got == get_schedule(schedule_id, tenant_id)
    IN  IF got = {}
        THEN NotFound(op, tenant_id, schedule_id)
        ELSE Mutating(op, tenant_id, schedule_id, change[CHOOSE r \in got : TRUE])

UpdateSchedule(schedule_id, tenant_id, source_id, keep_n, schedule, is_active) ==
    /\ CanCall
    /\ mgr' = OnTarget("update_schedule", schedule_id, tenant_id,
                       [old \in Rows |->
                           Some([old EXCEPT !.source_id = Opt(source_id, @),
                                            !.keep_n = Opt(keep_n, @),
                                            !.schedule = Opt(schedule, @),
                                            !.is_active = Opt(is_active, @)])])
    /\ calls' = calls + 1
    /\ UNCHANGED <<schedules, nextId, version, published, queue, beat, table, fired, execVars, adapterVars, restoreVars>>

DeleteSchedule(schedule_id, tenant_id) ==
    /\ CanCall
    /\ mgr' = OnTarget("delete_schedule", schedule_id, tenant_id,
                       [old \in Rows |->
                           Some(old)])
    /\ calls' = calls + 1
    /\ UNCHANGED <<schedules, nextId, version, published, queue, beat, table, fired, execVars, adapterVars, restoreVars>>

UpdateLastRun(schedule_id, tenant_id, last_run) ==
    /\ CanCall
    /\ mgr' = OnTarget("update_last_run", schedule_id, tenant_id,
                       [old \in Rows |->
                           Some([old EXCEPT !.last_run = Some(last_run)])])
    /\ calls' = calls + 1
    /\ UNCHANGED <<schedules, nextId, version, published, queue, beat, table, fired, execVars, adapterVars, restoreVars>>

ToggleSchedule(schedule_id, tenant_id) ==
    /\ CanCall
    /\ mgr' = OnTarget("toggle_schedule", schedule_id, tenant_id,
                       [old \in Rows |->
                           Some([old EXCEPT !.is_active = ~old.is_active])])
    /\ calls' = calls + 1
    /\ UNCHANGED <<schedules, nextId, version, published, queue, beat, table, fired, execVars, adapterVars, restoreVars>>

\* the step that follows: return when nothing is left to do
Advance(m) ==
    LET rest == Tail(m.todo)
    IN  [m EXCEPT !.todo = rest,
                  !.pc = IF rest = <<>> THEN "return" ELSE "run",
                  !.outcome = IF rest = <<>> THEN "returned" ELSE m.outcome,
                  !.value = IF rest # <<>> THEN m.value
                            ELSE IF m.op = "delete_schedule" THEN "True" ELSE "object"]

\* session.add / session.delete, session.commit(), session.refresh()
Commit ==
    /\ mgr.pc = "run"
    /\ Head(mgr.todo) = "commit"
    /\ LET obj == Val(mgr.pending)
       IN  /\ schedules' =
                IF mgr.op = "delete_schedule"
                THEN [i \in DOMAIN schedules \ {obj.id} |-> schedules[i]]
                ELSE [i \in DOMAIN schedules \cup {obj.id} |->
                         IF i = obj.id THEN obj ELSE schedules[i]]
           /\ mgr' = [Advance(mgr) EXCEPT
                         !.committed = TRUE,
                         !.result = IF mgr.op = "delete_schedule" THEN {} ELSE {obj}]
    /\ nextId' = IF mgr.op = "create_schedule" THEN nextId + 1 ELSE nextId
    /\ version' = version + 1
    /\ UNCHANGED <<calls, published, queue, beat, table, fired, execVars, adapterVars, restoreVars>>

\* _notify_scheduler_reload: one empty message on the "schedules" queue, or
\* the broker connection fails and the call raises
NotifySchedulerReload ==
    /\ mgr.pc = "run"
    /\ Head(mgr.todo) = "notify"
    /\ \E ok \in BOOLEAN :
          IF ok
          THEN /\ published' = published + 1
               /\ queue' = queue + 1
               /\ mgr' = [Advance(mgr) EXCEPT !.sent = @ + 1]
          ELSE /\ mgr' = [mgr EXCEPT !.pc = "return", !.todo = <<>>, !.outcome = "raised"]
               /\ UNCHANGED <<published, queue>>
    /\ UNCHANGED <<schedules, nextId, version, calls, beat, table, fired, execVars, adapterVars, restoreVars>>

\* the call returns to its caller
Return ==
    /\ mgr.pc = "return"
    /\ mgr' = MgrIdle
    /\ UNCHANGED <<schedules, nextId, version, calls, published, queue, beat, table, fired, execVars, adapterVars, restoreVars>>

(***************************************************************************)
(* Periodic Dispatcher (scheduler.py)                                      *)
(***************************************************************************)
\* f"backup-schedule-{schedule.id}-{schedule.tenant_id}"
ScheduleKey(row) == <<"backup-schedule", row.id, row.tenant_id>>

ScheduleKwargs(row) ==
    [backup_source_id |-> row.source_id,
     backup_destination_id |-> row.destination_id,
     tenant_id |-> row.tenant_id,
     schedule_id |-> row.id,
     keep_n |-> row.keep_n]

\* a load that selects the active schedules only
LoadedRowsActive(rows) == {r \in rows : r.is_active}

\* the rows load_schedules_from_db turns into entries: every row of the table
LoadedRows(rows) == rows

\* load_schedules_from_db: the dict it returns, or the ValueError that
\* parse_cron_exp raises for the first malformed row
load_schedules_from_db(rows) ==
    IF \E r \in LoadedRows(rows) : parse_cron_exp(r.schedule).raised
    THEN [raised |-> TRUE, dict |-> <<>>]
    ELSE LET keys == {ScheduleKey(r) : r \in LoadedRows(rows)}
             rowOf(k) == CHOOSE r \in LoadedRows(rows) : ScheduleKey(r) = k
         IN  [raised |-> FALSE,
              dict |-> [k \in keys |->
                         [task |-> "src.worker.create_backup",
                          schedule |-> parse_cron_exp(rowOf(k).schedule).crontab,
                          kwargs |-> ScheduleKwargs(rowOf(k))]]]

\* a reload that does not clear the table before merging
ClearScheduleKeep(schedule) == schedule

\* self.schedule.clear()
ClearSchedule(schedule) == <<>>

\* celery's Scheduler.merge_inplace(b): keys on one side only are popped, then
\* every key of b is added, or updated in place keeping the entry's run count
MergeInplace(schedule, b) ==
    LET A == DOMAIN schedule
        B == DOMAIN b
        kept == A \ ((A \ B) \cup (B \ A))
    IN  [k \in kept \cup B |->
            [task |-> b[k].task, schedule |-> b[k].schedule, kwargs |-> b[k].kwargs,
             total_run_count |-> IF k \in kept THEN schedule[k].total_run_count ELSE 0]]

\* reloaded, lastVersion, lastTable and same remember the last finished reload
BeatStart == [pc |-> "start", loaded |-> Nil, readVersion |-> 0,
              reloaded |-> FALSE, lastVersion |-> 0, lastTable |-> Nil,
              same |-> FALSE]

\* DynamicScheduler.setup_schedule: build the table, start the listener thread
SetupSchedule ==
    /\ beat.pc = "start"
    /\ LET b == load_schedules_from_db(Rows)
       IN  IF b.raised
           THEN /\ beat' = [beat EXCEPT !.pc = "crashed"]
                /\ UNCHANGED table
           ELSE /\ table' = MergeInplace(table, b.dict)
                /\ beat' = [beat EXCEPT !.pc = "idle", !.readVersion = version]
    /\ UNCHANGED <<schedules, nextId, version, mgr, calls, published, queue, fired, execVars, adapterVars, restoreVars>>

\* _reload, first statement: a message was delivered, the table is cleared
ReloadClear ==
    /\ beat.pc = "idle"
    /\ queue > 0
    /\ table' = ClearSchedule(table)
    /\ beat' = [beat EXCEPT !.pc = "cleared"]
    /\ UNCHANGED <<schedules, nextId, version, mgr, calls, published, queue, fired, execVars, adapterVars, restoreVars>>

\* _reload, load_schedules_from_db(): one SELECT over backup_schedules; a
\* ValueError leaves the callback, and the listener thread ends with it
ReloadLoad ==
    /\ beat.pc = "cleared"
    /\ LET b == load_schedules_from_db(Rows)
       IN  IF b.raised
           THEN beat' = [beat EXCEPT !.pc = "dead"]
           ELSE beat' = [beat EXCEPT !.pc = "loaded", !.loaded = Some(b.dict),
                                     !.readVersion = version]
    /\ UNCHANGED <<schedules, nextId, version, mgr, calls, published, queue, table, fired, execVars, adapterVars, restoreVars>>

\* _reload, merge_inplace(...) and message.ack()
ReloadMerge ==
    /\ beat.pc = "loaded"
    /\ table' = MergeInplace(table, Val(beat.loaded))
    /\ queue' = queue - 1
    /\ beat' = [beat EXCEPT !.pc = "idle", !.loaded = Nil, !.reloaded = TRUE,
                            !.lastVersion = beat.readVersion,
                            !.same = beat.reloaded /\ beat.readVersion = beat.lastVersion,
                            !.lastTable = Some(table')]
    /\ UNCHANGED <<schedules, nextId, version, mgr, calls, published, fired, execVars, adapterVars, restoreVars>>

\* _listen_for_updates, conn.drain_events(): the broker connection drops, the
\* connection error leaves the "while True" loop and both "with" blocks, and
\* the listener thread ends; nothing reconnects
BrokerDisconnect ==
    /\ beat.pc = "idle"
    /\ beat' = [beat EXCEPT !.pc = "lost"]
    /\ UNCHANGED <<schedules, nextId, version, mgr, calls, published, queue, table, fired, execVars, adapterVars, restoreVars>>

\* the beat tick loop: an entry is due, its task is sent and its run counted
Fire(k) ==
    /\ beat.pc \in {"idle", "cleared", "loaded", "dead", "lost"}
    /\ k \in DOMAIN table
    /\ Len(fired) < MaxFires
    /\ fired' = Append(fired, [task |-> table[k].task, kwargs |-> table[k].kwargs])
    /\ table' = [table EXCEPT ![k].total_run_count = @ + 1]
    /\ UNCHANGED <<schedules, nextId, version, mgr, calls, published, queue, beat, execVars, adapterVars, restoreVars>>

(***************************************************************************)
(* The tasks a worker registers.  Celery names a task after its module and *)
(* function; the worker calls it with the entry's kwargs as keywords.     *)
(***************************************************************************)
\* worker.py: def create_backup(backup_source_id, backup_destination_id,
\* tenant_id, keep_n=None)
WorkerCreateBackup ==
    [required |-> {"backup_source_id", "backup_destination_id", "tenant_id"},
     optional |-> {"keep_n"}]

\* services/worker.py: def create_backup(backup_source_id,
\* backup_destination_id, tenant_id, schedule_id=None, keep_n=None)
ServicesWorkerCreateBackup ==
    [required |-> {"backup_source_id", "backup_destination_id", "tenant_id"},
     optional |-> {"schedule_id", "keep_n"}]

\* the create_backup tasks by registered name
TaskNames == {"src.worker.create_backup", "src.services.worker.create_backup"}

TaskSignature(task) ==
    IF task = "src.worker.create_backup" THEN WorkerCreateBackup
    ELSE ServicesWorkerCreateBackup

\* Python's binding of keyword arguments to a signature: every parameter
\* without a default is given, and no keyword is unexpected (TypeError)
Accepts(signature, kwargs) ==
    /\ signature.required \subseteq DOMAIN kwargs
    /\ DOMAIN kwargs \subseteq signature.required \cup signature.optional

(***************************************************************************)
(* Specification of the schedule store, the reload topic and the Dispatcher*)
(***************************************************************************)
UpdateArgs ==
    {<<Some(2), Nil, Nil, Nil>>, <<Nil, Some(1), Nil, Nil>>,
     <<Nil, Nil, Some(CronFour), Nil>>, <<Nil, Nil, Nil, Some(FALSE)>>}

\* the store is empty, no call is in progress, beat has not started
SchedStart ==
    /\ schedules = <<>>
    /\ nextId = 1
    /\ mgr = MgrIdle
    /\ calls = 0
    /\ version = 0
    /\ published = 0
    /\ queue = 0
    /\ beat = BeatStart
    /\ table = <<>>
    /\ fired = <<>>

\* the Task Executor at rest
ExecIdle ==
    /\ exec = <<>>
    /\ runs = 0
    /\ localFiles = {}
    /\ remote = <<>>
    /\ now = 0

\* no adapter under test, no restore task
AdapterIdle == adapter = <<>>

RestoreIdle == restore = <<>>

InitSched ==
    /\ SchedStart
    /\ ExecIdle
    /\ AdapterIdle
    /\ RestoreIdle

ManagerCall ==
    \/ \E t \in Tenants, c \in CronExps : CreateSchedule(t, 1, 1, 2, c, TRUE)
    \/ \E i \in 1..MaxSchedules, t \in Tenants : GetSchedule(i, t)
    \/ \E t \in Tenants, a \in {Nil, Some(TRUE), Some(FALSE)} : ListSchedules(t, a)
    \/ \E i \in 1..MaxSchedules, t \in Tenants, u \in UpdateArgs :
          UpdateSchedule(i, t, u[1], u[2], u[3], u[4])
    \/ \E i \in 1..MaxSchedules, t \in Tenants : DeleteSchedule(i, t)
    \/ \E i \in 1..MaxSchedules, t \in Tenants : UpdateLastRun(i, t, 1)
    \/ \E i \in 1..MaxSchedules, t \in Tenants : ToggleSchedule(i, t)

NextSched ==
    \/ ManagerCall
    \/ Commit
    \/ NotifySchedulerReload
    \/ Return
    \/ SetupSchedule
    \/ ReloadClear
    \/ ReloadLoad
    \/ ReloadMerge
    \/ BrokerDisconnect
    \/ \E k \in DOMAIN table : Fire(k)

SpecSched == InitSched /\ [][NextSched]_vars

(***************************************************************************)
(* Task Executor: create_backup (services/worker.py), with the records it  *)
(* resolves, the Credential Vault, the adapter registries, the artifact    *)
(* filename convention and the Destination adapters it drives.             *)
(***************************************************************************)
\* the worker processes of the pool
Workers == {"w1"}

\* backup_sources rows
Sources ==
    { [id |-> 1, tenant_id |-> "a1", source_type |-> "qdrant", url |-> "http://q1",
       password |-> Nil, api_key |-> Some("enc:key")],
      [id |-> 2, tenant_id |-> "a1", source_type |-> "elasticsearch", url |-> "http://es",
       password |-> Some("tampered"), api_key |-> Nil],
      [id |-> 3, tenant_id |-> "b2", source_type |-> "qdrant", url |-> "http://q3",
       password |-> Some("enc:pw"), api_key |-> Nil],
      [id |-> 5, tenant_id |-> "a1", source_type |-> "mongodb", url |-> "http://m5",
       password |-> Nil, api_key |-> Nil] }

\* backup_destinations rows; destinations 1 and 4 name the same bucket
Destinations ==
    { [id |-> 1, tenant_id |-> "a1", destination_type |-> "s3", url |-> "s3://b",
       password |-> Some("enc:pw"), api_key |-> Nil],
      [id |-> 2, tenant_id |-> "a1", destination_type |-> "local_fs", url |-> "/backups",
       password |-> Nil, api_key |-> Nil],
      [id |-> 3, tenant_id |-> "a1", destination_type |-> "sftp", url |-> "sftp://h",
       password |-> Some("enc:pw"), api_key |-> Some("tampered")],
      [id |-> 4, tenant_id |-> "b2", destination_type |-> "s3", url |-> "s3://b",
       password |-> Nil, api_key |-> Some("enc:key")],
      [id |-> 6, tenant_id |-> "a1", destination_type |-> "smb", url |-> "smb://h",
       password |-> Nil, api_key |-> Nil] }

Urls == {d.url : d \in Destinations}

\* the Source lookup by id alone
FindSourceAnyTenant(tenant_id, id) ==
    {x \in Sources : x.id = id}

\* select(Source).where(tenant_id == tenant_id, id == backup_source_id)
FindSource(tenant_id, id) ==
    {x \in Sources : x.tenant_id = tenant_id /\ x.id = id}

\* select(Destination).where(tenant_id == tenant_id, id == backup_destination_id)
FindDestination(tenant_id, id) ==
    {x \in Destinations : x.tenant_id = tenant_id /\ x.id = id}

\* crypto.decrypt_str: the plaintext, or ValueError on a token that does not
\* authenticate
decrypt_str(token) ==
    CASE token = "enc:pw" -> [raised |-> FALSE, plaintext |-> "pw"]
      [] token = "enc:key" -> [raised |-> FALSE, plaintext |-> "key"]
      [] OTHER -> [raised |-> TRUE, plaintext |-> ""]

\* a helper that falls back to the stored token when decryption fails
DecryptCredentialsOrStored(entity) ==
    LET dec(field) == IF field = Nil THEN Nil
                      ELSE IF decrypt_str(Val(field)).raised THEN field
                      ELSE Some(decrypt_str(Val(field)).plaintext)
    IN  [raised |-> FALSE,
         credentials |-> [url |-> entity.url, password |-> dec(entity.password),
                          api_key |-> dec(entity.api_key)]]

\* _decrypt_credentials: password first, then api_key; a field that is not
\* set stays None; a failed decryption raises ValueError
DecryptCredentials(entity) ==
    LET pw == IF entity.password # Nil THEN decrypt_str(Val(entity.password))
              ELSE [raised |-> FALSE, plaintext |-> ""]
        key == IF entity.api_key # Nil THEN decrypt_str(Val(entity.api_key))
               ELSE [raised |-> FALSE, plaintext |-> ""]
    IN  [raised |-> pw.raised \/ key.raised,
         credentials |->
            [url |-> entity.url,
             password |-> IF entity.password # Nil THEN Some(pw.plaintext) ELSE Nil,
             api_key |-> IF entity.api_key # Nil THEN Some(key.plaintext) ELSE Nil]]

\* the keys of the registries' maps
SourceTypeTags == {"vault", "qdrant", "postgres", "elasticsearch"}
DestinationTypeTags == {"s3", "local_fs", "sftp"}

\* the values of BackupManager.create_from_type's dict literal, in the order
\* Python evaluates them
SourceAdapterOrder == <<"vault", "qdrant", "postgres", "elasticsearch">>

\* whether each Source adapter's constructor succeeds on the credentials:
\* all of them do, or one of them raises
SourceCtorOutcomes ==
    {[t \in SourceTypeTags |-> t # bad] : bad \in SourceTypeTags \cup {"none"}}

\* BackupManager.create_from_type: map_ is built first, and its values are
\* adapter instances, so all four constructors run before map_[source_type];
\* the first that raises ends the call, an unknown tag is a KeyError
BackupManager_create_from_type(source_type, ctor) ==
    LET failing == {i \in 1..4 : ~ctor[SourceAdapterOrder[i]]}
        all == {SourceAdapterOrder[i] : i \in 1..4}
    IN  IF failing # {}
        THEN LET i == CHOOSE x \in failing : \A y \in failing : x <= y
             IN  [raised |-> "AdapterError",
                  constructed |-> {SourceAdapterOrder[j] : j \in 1..(i - 1)},
                  failed |-> Some(SourceAdapterOrder[i])]
        ELSE IF source_type \notin SourceTypeTags
        THEN [raised |-> "KeyError", constructed |-> all, failed |-> Nil]
        ELSE [raised |-> "none", constructed |-> all, failed |-> Nil]

\* BackupDestinationManager.create_from_type: map_ holds the classes, so
\* map_[source_type] is looked up first (KeyError) and only that class is
\* constructed
BackupDestinationManager_create_from_type(destination_type, ok) ==
    IF destination_type \notin DestinationTypeTags
    THEN [raised |-> "KeyError", constructed |-> {}, failed |-> Nil]
    ELSE IF ~ok
    THEN [raised |-> "AdapterError", constructed |-> {},
          failed |-> Some(destination_type)]
    ELSE [raised |-> "none", constructed |-> {destination_type}, failed |-> Nil]

(***************************************************************************)
(* Artifact names are token sequences:                                     *)
(* <source>_backup_usr=<tenant>_sch=<schedule|None>_src=<id>_created_at=<ts>.<ext> *)
(***************************************************************************)
IdStr(i) == <<"1", "2", "3", "4", "5", "6", "7", "8", "9">>[i]
TimeStr(t) ==
    <<"20240101_000001", "20240101_000002", "20240101_000003", "20240101_000004",
      "20240101_000005", "20240101_000006", "20240101_000007", "20240101_000008">>[t]

WordTokens == SourceTypeTags \cup {"notes"}
HexTokens == Tenants
DigitTokens == {IdStr(i) : i \in 1..9}
TimeTokens == {TimeStr(t) : t \in 1..8}

\* the name a Source adapter gives its artifact (qdrant.py, elasticsearch.py)
FormatName(source_type, tenant_id, schedule_id, backup_source_id, timestamp) ==
    <<source_type, "_backup_usr=", tenant_id,
      "_sch=", IF schedule_id = Nil THEN "None" ELSE IdStr(Val(schedule_id)),
      "_src=", IdStr(backup_source_id),
      "_created_at=", TimeStr(timestamp), ".", "tar.gz">>

\* _parse_filename: the regex's groups, or no match (ValueError)
ParseFilename(name) ==
    IF /\ Len(name) = 11
       /\ name[1] \in WordTokens
       /\ name[2] = "_backup_usr="
       /\ name[3] \in HexTokens
       /\ name[4] = "_sch="
       /\ name[5] \in DigitTokens \cup {"None"}
       /\ name[6] = "_src="
       /\ name[7] \in DigitTokens
       /\ name[8] = "_created_at="
       /\ name[9] \in TimeTokens
       /\ name[10] = "."
    THEN [ok |-> TRUE, source |-> name[1], tenant_id |-> name[3],
          schedule_id |-> name[5], source_id |-> name[7],
          timestamp |-> name[9], extension |-> name[11]]
    ELSE [ok |-> FALSE, source |-> "", tenant_id |-> "", schedule_id |-> "",
          source_id |-> "", timestamp |-> "", extension |-> ""]

\* Python values by type: _parse_filename returns match.groups(), which are
\* strings, while the adapters format ints and None
PyNone == <<"NoneType", "None">>
PyInt(i) == <<"int", IdStr(i)>>
PyStr(x) == <<"str", x>>

\* str(v), as an f-string renders it
PyText(v) == v[2]

\* the four fields a Source adapter formats into the name
OriginalFields(source_type, tenant_id, schedule_id, backup_source_id) ==
    [source |-> PyStr(source_type), tenant_id |-> PyStr(tenant_id),
     schedule_id |-> IF schedule_id = Nil THEN PyNone ELSE PyInt(Val(schedule_id)),
     source_id |-> PyInt(backup_source_id)]

\* the same four fields of the dict _parse_filename returns
ParsedFields(name) ==
    LET p == ParseFilename(name)
    IN  [source |-> PyStr(p.source), tenant_id |-> PyStr(p.tenant_id),
         schedule_id |-> PyStr(p.schedule_id), source_id |-> PyStr(p.source_id)]

\* a file at the destination that this system did not name
ForeignName == <<"notes", ".", "txt">>

File(name, modified) == [name |-> name, modified |-> modified]

(***************************************************************************)
(* Destination adapters                                                    *)
(***************************************************************************)
\* upload_backup: the key the artifact is stored under.  local_fs appends a
\* timestamp to the stem when the name is taken; s3 and sftp overwrite.
UploadName(destination_type, files, name, t) ==
    IF destination_type = "local_fs" /\ \E f \in files : f.name = name
    THEN [name EXCEPT ![11] = TimeStr(t)]
    ELSE name

\* the stored files after upload_backup wrote name at time t
Uploaded(files, name, t) ==
    {f \in files : f.name # name} \cup {File(name, t)}

\* a dotfile at the destination
HiddenName == <<".", "keep">>

\* list_backups of each adapter class over the entries the backend
\* enumerates: what it returns, or that it raises.
\*   s3       parses every key; a ValueError becomes RuntimeError
\*   sftp     skips names that start with ".", parses the rest
\*   local_fs calls _extract_backup_source, which no class defines, on the
\*            first file it meets
\*   smb      builds BackupDetails without source and source_id; the
\*            validation error is caught per entry and the entry dropped
list_backups(destination_type, files) ==
    LET visible == IF destination_type \in {"sftp", "smb"}
                   THEN {f \in files : f.name[1] # "."}
                   ELSE files
        unparsed == {f \in visible : ~ParseFilename(f.name).ok}
    IN  CASE destination_type = "local_fs" -> [raised |-> files # {}, backups |-> {}]
          [] destination_type = "smb" -> [raised |-> FALSE, backups |-> {}]
          [] OTHER -> IF unparsed # {}
                      THEN [raised |-> TRUE, backups |-> {}]
                      ELSE [raised |-> FALSE, backups |-> visible]

\* list_backups: does building the BackupDetails list raise?
ListRaises(destination_type, files) == list_backups(destination_type, files).raised

\* BackupDetails.source of a listed file
SourceOf(f) == ParseFilename(f.name).source

\* sorted(S, key=modified): the orders Python's sort can return, oldest
\* first; files with equal modified keep the order the listing had them in,
\* which the backend chooses
RECURSIVE SortedByModified(_)
SortedByModified(S) ==
    IF S = {} THEN {<<>>}
    ELSE LET oldest == {f \in S : \A g \in S : f.modified <= g.modified}
         IN  UNION {{<<f>> \o rest : rest \in SortedByModified(S \ {f})} : f \in oldest}

\* relevant_backups[:-keep_n]
DropNewest(relevant, keep_n) ==
    IF Len(relevant) > keep_n THEN SubSeq(relevant, 1, Len(relevant) - keep_n) ELSE <<>>

\* "if keep_n:" - None and 0 skip the retention loop
KeepNSet(keep_n) == keep_n # Nil /\ Val(keep_n) # 0

(***************************************************************************)
(* create_backup                                                           *)
(***************************************************************************)
Blank ==
    [pc |-> "idle", tenant_id |-> "none", backup_source_id |-> 0,
     backup_destination_id |-> 0, schedule_id |-> Nil, keep_n |-> Nil,
     source_type |-> "none", destination_type |-> "none", url |-> "none",
     source_credentials |-> Nil, destination_credentials |-> Nil,
     decrypt_failed |-> "none", calls |-> {},
     source_adapters |-> {}, destination_adapters |-> {}, ctor_failed |-> Nil,
     session |-> Nil,
     local_path |-> Nil, remote_path |-> Nil,
     listed |-> Nil, excess |-> <<>>, todo |-> <<>>,
     attempted |-> {}, deleted |-> {}, delete_failed |-> FALSE,
     error |-> "none", result |-> Nil]

\* an exception that leaves create_backup before the inner try is entered
Raise(r, error) == [r EXCEPT !.pc = "done", !.error = error]

\* a cleanup that runs on the normal return only
AfterTryOnReturnOnly(raised) == IF raised THEN "done" ELSE "cleanup"

\* where control goes when the inner "try: ... finally:" is left, by return
\* or by exception: the finally block runs on every path
AfterTry(raised) == "cleanup"

\* an exception, or the return, inside the inner try
Leave(r, error) ==
    [r EXCEPT !.pc = AfterTry(error # "none"), !.error = error, !.todo = <<>>,
              !.result = IF error = "none" THEN r.remote_path ELSE Nil]

\* lines 103-135: resolve both records, decrypt, obtain both adapters.
\* ctor and dstInit say whether the adapter constructors succeed.
Prepare(r, ctor, dstInit) ==
    LET ds == FindDestination(r.tenant_id, r.backup_destination_id)
        ss == FindSource(r.tenant_id, r.backup_source_id)
    IN  IF ds = {} \/ ss = {} THEN Raise(r, "NoResultFound")
        ELSE
        LET dest == CHOOSE x \in ds : TRUE
            src == CHOOSE x \in ss : TRUE
            r1 == [r EXCEPT !.source_type = src.source_type,
                            !.destination_type = dest.destination_type,
                            !.url = dest.url]
            sc == DecryptCredentials(src)
            dc == DecryptCredentials(dest)
            bm == BackupManager_create_from_type(src.source_type, ctor)
            bdm == BackupDestinationManager_create_from_type(dest.destination_type,
                                                             dstInit)
            r2 == [r1 EXCEPT !.source_credentials = Some(sc.credentials),
                             !.calls = @ \cup {"BackupManager"},
                             !.source_adapters = bm.constructed,
                             !.ctor_failed = bm.failed]
            r3 == [r2 EXCEPT !.destination_credentials = Some(dc.credentials),
                             !.calls = @ \cup {"BackupDestinationManager"},
                             !.destination_adapters = bdm.constructed,
                             !.ctor_failed = bdm.failed]
        IN  IF sc.raised THEN Raise([r1 EXCEPT !.decrypt_failed = "source"], "ValueError")
            ELSE IF bm.raised # "none" THEN Raise(r2, bm.raised)
            ELSE IF dc.raised
                 THEN Raise([r2 EXCEPT !.decrypt_failed = "destination"], "ValueError")
            ELSE IF bdm.raised # "none" THEN Raise(r3, bdm.raised)
            ELSE [r3 EXCEPT !.pc = "create"]

\* the worker process that runs execution slot w: w1 and w2 are two slots of
\* one process (a thread, gevent or eventlet pool), w3 is another process
ProcessOf(w) == IF w = "w3" THEN "p2" ELSE "p1"

\* "db_session = Session(engine)" at module level: one Session object per
\* worker process, made at import, which every task run by the process uses
db_session(w) == <<"Session", ProcessOf(w)>>

\* the task starts on a free worker process and runs up to the adapters
Start(w, tenant_id, backup_source_id, backup_destination_id, schedule_id, keep_n) ==
    /\ exec[w].pc = "idle"
    /\ runs < MaxRuns
    /\ exec' \in
          {[exec EXCEPT ![w] =
               Prepare([Blank EXCEPT !.tenant_id = tenant_id,
                                     !.backup_source_id = backup_source_id,
                                     !.backup_destination_id = backup_destination_id,
                                     !.schedule_id = schedule_id,
                                     !.keep_n = keep_n,
                                     !.session = Some(db_session(w))],
                       ctor, dstInit)] :
             ctor \in SourceCtorOutcomes, dstInit \in BOOLEAN}
    /\ runs' = runs + 1
    /\ UNCHANGED <<localFiles, remote, now, schedVars, adapterVars, restoreVars>>

\* backup_manager.create_backup(...): the archive is written to the working
\* directory under the formatted name, or the adapter raises
CreateBackup(w) ==
    /\ exec[w].pc = "create"
    /\ LET r == [exec[w] EXCEPT !.calls = @ \cup {"create_backup"}]
           path == FormatName(r.source_type, r.tenant_id, r.schedule_id,
                              r.backup_source_id, now)
       IN  \E ok \in BOOLEAN :
              IF ok
              THEN /\ localFiles' = localFiles \cup {path}
                   /\ exec' = [exec EXCEPT ![w] =
                                  [r EXCEPT !.pc = "upload", !.local_path = Some(path)]]
              ELSE /\ exec' = [exec EXCEPT ![w] = Raise(r, "AdapterError")]
                   /\ UNCHANGED localFiles
    /\ UNCHANGED <<runs, remote, now, schedVars, adapterVars, restoreVars>>

\* an upload failure after which the run goes on to list and prune
AfterUploadErrorPrunes(r, error) == [r EXCEPT !.pc = "list"]

\* what the run does when upload_backup raises: the exception leaves the try
\* block, past list_backups and the retention loop
AfterUploadError(r, error) == Leave(r, error)

\* backup_destination_manager.upload_backup(local_path)
UploadBackup(w) ==
    /\ exec[w].pc = "upload"
    /\ LET r == [exec[w] EXCEPT !.calls = @ \cup {"upload_backup"}]
           path == Val(r.local_path)
           key == UploadName(r.destination_type, remote[r.url], path, now)
       IN  IF path \notin localFiles
           THEN /\ exec' = [exec EXCEPT ![w] = AfterUploadError(r, "FileNotFoundError")]
                /\ UNCHANGED remote
           ELSE \E ok \in BOOLEAN :
                  IF ok
                  THEN /\ remote' = [remote EXCEPT ![r.url] = Uploaded(@, key, now)]
                       /\ exec' = [exec EXCEPT ![w] =
                                      [r EXCEPT !.pc = "list", !.remote_path = Some(key)]]
                  ELSE /\ exec' = [exec EXCEPT ![w] = AfterUploadError(r, "AdapterError")]
                       /\ UNCHANGED remote
    /\ UNCHANGED <<runs, localFiles, now, schedVars, adapterVars, restoreVars>>

\* list_backups(), then filter by source type and sort by modified, then the
\* slice the retention loop will walk
ListBackups(w) ==
    /\ exec[w].pc = "list"
    /\ LET r == [exec[w] EXCEPT !.calls = @ \cup {"list_backups"}]
           files == remote[r.url]
           rel == {f \in files : SourceOf(f) = r.source_type}
       IN  \E ok \in BOOLEAN :
              IF ~ok \/ ListRaises(r.destination_type, files)
              THEN exec' = [exec EXCEPT ![w] = Leave(r, "AdapterError")]
              ELSE \E relevant \in SortedByModified(rel) :
                      LET extra == IF KeepNSet(r.keep_n)
                                   THEN DropNewest(relevant, Val(r.keep_n))
                                   ELSE <<>>
                          r1 == [r EXCEPT !.listed = Some(files), !.excess = extra,
                                          !.todo = extra]
                      IN  exec' = [exec EXCEPT ![w] =
                                      IF extra = <<>> THEN Leave(r1, "none")
                                      ELSE [r1 EXCEPT !.pc = "prune"]]
    /\ UNCHANGED <<runs, localFiles, remote, now, schedVars, adapterVars, restoreVars>>

\* what the retention loop does when delete_backup raises: the exception
\* leaves the loop
AfterDeleteError(r) == Leave(r, "AdapterError")

\* one turn of "for extra_backup in relevant_backups[:-keep_n]"
DeleteBackup(w) ==
    /\ exec[w].pc = "prune"
    /\ LET f == Head(exec[w].todo)
           r == [exec[w] EXCEPT !.calls = @ \cup {"delete_backup"},
                                !.attempted = @ \cup {f.name},
                                !.todo = Tail(@)]
       IN  \E ok \in BOOLEAN :
              IF ok
              THEN /\ remote' = [remote EXCEPT ![r.url] = {g \in @ : g.name # f.name}]
                   /\ exec' = [exec EXCEPT ![w] =
                                  LET r1 == [r EXCEPT !.deleted = @ \cup {f.name}]
                                  IN  IF r1.todo = <<>> THEN Leave(r1, "none") ELSE r1]
              ELSE /\ exec' = [exec EXCEPT ![w] =
                                  AfterDeleteError([r EXCEPT !.delete_failed = TRUE])]
                   /\ UNCHANGED remote
    /\ UNCHANGED <<runs, localFiles, now, schedVars, adapterVars, restoreVars>>

\* finally: if os.path.exists(local_path): os.remove(local_path)
Cleanup(w) ==
    /\ exec[w].pc = "cleanup"
    /\ localFiles' = localFiles \ {Val(exec[w].local_path)}
    /\ exec' = [exec EXCEPT ![w].pc = "done"]
    /\ UNCHANGED <<runs, remote, now, schedVars, adapterVars, restoreVars>>

\* the worker process is free for the next task
Finish(w) ==
    /\ exec[w].pc = "done"
    /\ exec' = [exec EXCEPT ![w] = Blank]
    /\ UNCHANGED <<runs, localFiles, remote, now, schedVars, adapterVars, restoreVars>>

\* a second passes
Tick ==
    /\ now < MaxTime
    /\ now' = now + 1
    /\ UNCHANGED <<exec, runs, localFiles, remote, schedVars, adapterVars, restoreVars>>

(***************************************************************************)
(* Specification of the Task Executor                                      *)
(***************************************************************************)
\* artifacts that may already be stored in the bucket
OldQdrant == File(FormatName("qdrant", "a1", Some(1), 1, 1), 1)
NewQdrant == File(FormatName("qdrant", "a1", Some(1), 1, 2), 2)
OtherType == File(FormatName("elasticsearch", "a1", Nil, 2, 1), 1)
OtherTenant == File(FormatName("qdrant", "b2", Some(1), 3, 2), 3)
Foreign == File(ForeignName, 1)

\* what the bucket holds when the workers start
StoredSets ==
    { {}, {OldQdrant, NewQdrant}, {OldQdrant, NewQdrant, OtherType},
      {OldQdrant, NewQdrant, OtherType, OtherTenant}, {NewQdrant, Foreign} }

\* the ids create_backup is invoked with: the last of each matches no row
SourceIds == {1, 2, 3, 4}
DestinationIds == {1, 2, 3, 4, 5}

\* the argument records create_backup is invoked with: on demand (no
\* schedule_id, no keep_n) or by the Dispatcher (both from the schedule row)
Requests ==
    { <<Nil, Nil>> } \cup { <<Some(1), Some(k)>> : k \in {0, 1, 2} }

InitExec ==
    /\ SchedStart
    /\ exec = [w \in Workers |-> Blank]
    /\ runs = 0
    /\ localFiles = {}
    /\ \E S \in StoredSets :
          remote = [u \in Urls |-> IF u = "s3://b" THEN S ELSE {}]
    /\ now = 3
    /\ AdapterIdle
    /\ RestoreIdle

NextExec ==
    \/ \E w \in Workers, t \in Tenants, s \in SourceIds, d \in DestinationIds,
          q \in Requests :
          Start(w, t, s, d, q[1], q[2])
    \/ \E w \in Workers : CreateBackup(w)
    \/ \E w \in Workers : UploadBackup(w)
    \/ \E w \in Workers : ListBackups(w)
    \/ \E w \in Workers : DeleteBackup(w)
    \/ \E w \in Workers : Cleanup(w)
    \/ \E w \in Workers : Finish(w)
    \/ Tick

SpecExec == InitExec /\ [][NextExec]_vars

(***************************************************************************)
(* Specification of overlapping create_backup invocations: the execution   *)
(* slots of the worker pool take tasks for one schedule of tenant a1       *)
(***************************************************************************)
Pool == {"w1", "w2", "w3"}

InitPool ==
    /\ SchedStart
    /\ exec = [w \in Pool |-> Blank]
    /\ runs = 0
    /\ localFiles = {}
    /\ remote = [u \in Urls |-> IF u = "s3://b" THEN {NewQdrant} ELSE {}]
    /\ now = 3
    /\ AdapterIdle
    /\ RestoreIdle

NextPool ==
    \/ \E w \in Pool : Start(w, "a1", 1, 1, Some(1), Some(1))
    \/ \E w \in Pool : CreateBackup(w)
    \/ \E w \in Pool : UploadBackup(w)
    \/ \E w \in Pool : ListBackups(w)
    \/ \E w \in Pool : DeleteBackup(w)
    \/ \E w \in Pool : Cleanup(w)
    \/ \E w \in Pool : Finish(w)
    \/ Tick

SpecPool == InitPool /\ [][NextPool]_vars

(***************************************************************************)
(* One Destination adapter, with an upload_backup and list_backups calls   *)
(* running on it at the same time (two tasks of the worker pool).          *)
(***************************************************************************)
MaxUploads == 2
MaxLists == 2

\* the adapter classes of backup_destination/
AdapterTypes == {"s3", "local_fs", "sftp", "smb"}

\* the name PostgresBackupManager.create_backup gives its dump
PostgresName(backup_source_id, timestamp) ==
    <<"postgres", "_backup_", IdStr(backup_source_id), "_", TimeStr(timestamp), ".", "sql">>

\* the local artifacts the Source adapters hand to upload_backup at time t
SourceArtifactNames(t) ==
    { FormatName("qdrant", "a1", Some(1), 1, t),
      FormatName("elasticsearch", "a1", Nil, 2, t),
      PostgresName(1, t) }

\* a directory entry or object: complete is FALSE while its bytes are still
\* being written, stored is TRUE when upload_backup put it there
Entry(name, modified, complete, stored) ==
    [name |-> name, modified |-> modified, complete |-> complete, stored |-> stored]

\* shutil.copy2, SFTPClient.put and smbclient.shutil.copy open the
\* destination file under its final name and write into it; S3 shows an
\* object only when upload_file has completed
WritesInPlace(destination_type) == destination_type \in {"local_fs", "sftp", "smb"}

AdapterStart(destination_type, files) ==
    [type |-> destination_type, files |-> files,
     up |-> [pc |-> "idle", name |-> <<>>], uploads |-> 0,
     listing |-> Nil, lists |-> 0]

\* upload_backup up to the point where the transfer is under way
BeginUpload(name) ==
    /\ adapter.up.pc = "idle"
    /\ adapter.uploads < MaxUploads
    /\ LET key == UploadName(adapter.type, adapter.files, name, now)
       IN  adapter' = [adapter EXCEPT
              !.up = [pc |-> "writing", name |-> key],
              !.uploads = @ + 1,
              !.files = IF WritesInPlace(adapter.type)
                        THEN {f \in @ : f.name # key} \cup {Entry(key, now, FALSE, TRUE)}
                        ELSE @]
    /\ UNCHANGED <<schedVars, execVars, restoreVars>>

\* the transfer ends: the artifact is complete, or the adapter raises and
\* leaves whatever it has written where it is
EndUpload ==
    /\ adapter.up.pc = "writing"
    /\ \E ok \in BOOLEAN :
          adapter' = [adapter EXCEPT
              !.up = [pc |-> "idle", name |-> <<>>],
              !.files = IF ok
                        THEN {f \in @ : f.name # adapter.up.name}
                             \cup {Entry(adapter.up.name, now, TRUE, TRUE)}
                        ELSE @]
    /\ UNCHANGED <<schedVars, execVars, restoreVars>>

\* a list_backups call of another task
ListDestination ==
    /\ adapter.lists < MaxLists
    /\ LET got == list_backups(adapter.type, adapter.files)
       IN  adapter' = [adapter EXCEPT
              !.lists = @ + 1,
              !.listing = Some([raised |-> got.raised,
                                names |-> {f.name : f \in got.backups},
                                partial |-> {f.name : f \in {g \in got.backups : ~g.complete}},
                                seen |-> {f.name : f \in adapter.files}])]
    /\ UNCHANGED <<schedVars, execVars, restoreVars>>

\* what the destination holds before the tasks start
AdapterStoredSets ==
    { {},
      {Entry(OldQdrant.name, 1, TRUE, FALSE)},
      {Entry(OldQdrant.name, 1, TRUE, FALSE), Entry(ForeignName, 1, TRUE, FALSE)},
      {Entry(OldQdrant.name, 1, TRUE, FALSE), Entry(HiddenName, 1, TRUE, FALSE)} }

InitDest ==
    /\ SchedStart
    /\ exec = <<>>
    /\ runs = 0
    /\ localFiles = {}
    /\ remote = <<>>
    /\ now = 3
    /\ \E t \in AdapterTypes, S \in AdapterStoredSets : adapter = AdapterStart(t, S)
    /\ RestoreIdle

NextDest ==
    \/ \E name \in SourceArtifactNames(now) : BeginUpload(name)
    \/ EndUpload
    \/ ListDestination
    \/ Tick

SpecDest == InitDest /\ [][NextDest]_vars

(***************************************************************************)
(* Task Executor: restore_from_backup (services/worker.py 264-337)         *)
(***************************************************************************)
MaxRestores == 2

\* the path get_backup makes up when none is given: uuid4 without dashes
UuidPath(n) == <<"uuid", IdStr(n)>>

RestoreBlank ==
    [pc |-> "idle", tenant_id |-> "none", backup_source_id |-> 0,
     backup_destination_id |-> 0, backup_path |-> <<>>,
     source_type |-> "none", destination_type |-> "none", url |-> "none",
     calls |-> {}, source_adapters |-> {}, destination_adapters |-> {},
     ctor_failed |-> Nil,
     failed_at |-> "none", error |-> "none",
     written |-> Nil, local_path |-> Nil, result |-> Nil, n |-> 0]

\* "except ValueError ... return False" and "except Exception ... return
\* False" around the whole body
OuterExcept(r, stage, error) ==
    [r EXCEPT !.pc = "done", !.failed_at = stage, !.error = error,
              !.result = Some(FALSE)]

\* the statement of lines 277-312 that raised error
StageOf(error) ==
    CASE error = "NoResultFound" -> "lookup"
      [] error = "ValueError" -> "decrypt"
      [] OTHER -> "adapter"

\* download_file of boto3 writes into a temporary file it removes on
\* failure; SFTPClient.get, shutil.copy2 and smbclient.shutil.copy write
\* into local_path itself and leave it behind when they fail
LeavesPartialFile(destination_type) == destination_type # "s3"

\* the task starts: both lookups, both decryptions, both adapters
RestoreStart(tenant_id, backup_source_id, backup_destination_id, backup_path) ==
    /\ restore.pc = "idle"
    /\ restore.n < MaxRestores
    /\ \E ctor \in SourceCtorOutcomes, dstInit \in BOOLEAN :
          LET p == Prepare([Blank EXCEPT !.tenant_id = tenant_id,
                                         !.backup_source_id = backup_source_id,
                                         !.backup_destination_id = backup_destination_id],
                           ctor, dstInit)
              r == [RestoreBlank EXCEPT !.tenant_id = tenant_id,
                                        !.backup_source_id = backup_source_id,
                                        !.backup_destination_id = backup_destination_id,
                                        !.backup_path = backup_path,
                                        !.source_type = p.source_type,
                                        !.destination_type = p.destination_type,
                                        !.url = p.url,
                                        !.calls = p.calls,
                                        !.source_adapters = p.source_adapters,
                                        !.destination_adapters = p.destination_adapters,
                                        !.ctor_failed = p.ctor_failed,
                                        !.n = restore.n + 1]
          IN  restore' = IF p.error # "none"
                         THEN OuterExcept(r, StageOf(p.error), p.error)
                         ELSE [r EXCEPT !.pc = "get"]
    /\ UNCHANGED <<schedVars, exec, runs, localFiles, remote, now, adapterVars>>

\* local_path = backup_destination_manager.get_backup(request.backup_path)
GetBackup ==
    /\ restore.pc = "get"
    /\ LET path == UuidPath(restore.n)
           stored == \E f \in remote[restore.url] : f.name = restore.backup_path
       IN  \E outcome \in {"returned", "raised", "raised_writing"} :
              CASE outcome = "returned" ->
                     /\ stored
                     /\ localFiles' = localFiles \cup {path}
                     /\ restore' = [restore EXCEPT !.pc = "restore",
                                                   !.written = Some(path),
                                                   !.local_path = Some(path)]
                [] outcome = "raised" ->
                     /\ localFiles' = localFiles
                     /\ restore' = OuterExcept(restore, "get_backup", "AdapterError")
                [] outcome = "raised_writing" ->
                     /\ stored
                     /\ IF LeavesPartialFile(restore.destination_type)
                        THEN /\ localFiles' = localFiles \cup {path}
                             /\ restore' = OuterExcept([restore EXCEPT !.written = Some(path)],
                                                       "get_backup", "AdapterError")
                        ELSE /\ localFiles' = localFiles
                             /\ restore' = OuterExcept(restore, "get_backup", "AdapterError")
    /\ UNCHANGED <<schedVars, exec, runs, remote, now, adapterVars>>

\* backup_manager.restore_from_backup(local_path): return True, or the
\* inner "except Exception: return False"
RestoreOnSource ==
    /\ restore.pc = "restore"
    /\ \E ok \in BOOLEAN :
          restore' = IF ok
                     THEN [restore EXCEPT !.pc = "cleanup", !.result = Some(TRUE)]
                     ELSE [restore EXCEPT !.pc = "cleanup", !.result = Some(FALSE),
                                          !.failed_at = "restore_from_backup",
                                          !.error = "AdapterError"]
    /\ UNCHANGED <<schedVars, exec, runs, localFiles, remote, now, adapterVars>>

\* finally: if os.path.exists(local_path): os.remove(local_path)
RestoreCleanup ==
    /\ restore.pc = "cleanup"
    /\ localFiles' = localFiles \ {Val(restore.local_path)}
    /\ restore' = [restore EXCEPT !.pc = "done"]
    /\ UNCHANGED <<schedVars, exec, runs, remote, now, adapterVars>>

\* the worker process is free for the next task
RestoreFinish ==
    /\ restore.pc = "done"
    /\ restore' = [RestoreBlank EXCEPT !.n = restore.n]
    /\ UNCHANGED <<schedVars, exec, runs, localFiles, remote, now, adapterVars>>

\* the keys a caller may ask for: one that is stored, one that is not
BackupPaths == {OldQdrant.name, NewQdrant.name}

\* the ids restore_from_backup is invoked with: source 5 and destination 6
\* are rows whose type tag no registry knows
RestoreSourceIds == SourceIds \cup {5}
RestoreDestinationIds == DestinationIds \cup {6}

InitRestore ==
    /\ SchedStart
    /\ exec = <<>>
    /\ runs = 0
    /\ localFiles = {}
    /\ remote = [u \in Urls |-> {OldQdrant}]
    /\ now = 3
    /\ AdapterIdle
    /\ restore = RestoreBlank

NextRestore ==
    \/ \E t \in Tenants, s \in RestoreSourceIds, d \in RestoreDestinationIds,
          path \in BackupPaths :
          RestoreStart(t, s, d, path)
    \/ GetBackup
    \/ RestoreOnSource
    \/ RestoreCleanup
    \/ RestoreFinish

SpecRestore == InitRestore /\ [][NextRestore]_vars

(***************************************************************************)
(* Properties of the Schedule Manager and the Dispatcher                   *)
(***************************************************************************)
NotifyingOps == {"create_schedule", "update_schedule", "delete_schedule", "toggle_schedule"}

\* the mutation the call in flight holds is the one the store shows
MutationInStore ==
    /\ mgr.pending # Nil
    /\ IF mgr.op = "delete_schedule"
       THEN Val(mgr.pending).id \notin DOMAIN schedules
       ELSE /\ Val(mgr.pending).id \in DOMAIN schedules
            /\ schedules[Val(mgr.pending).id] = Val(mgr.pending)

\* C3: create_schedule, update_schedule, delete_schedule and toggle_schedule
\* commit first and publish afterwards: every publish on the reload topic is
\* a single message sent by a call whose mutation is already committed and
\* visible in the store, and a call that returns normally has published
\* exactly one message.
C3_CommitThenPublishOnce ==
    [][ /\ (published' # published =>
              /\ published' = published + 1
              /\ mgr.op \in NotifyingOps
              /\ mgr.committed
              /\ MutationInStore)
        /\ (mgr'.pc = "return" /\ mgr'.outcome = "returned" /\ mgr'.op \in NotifyingOps =>
              mgr'.committed /\ mgr'.sent = 1) ]_vars

C3_Witness ==
    /\ mgr.pc = "return"
    /\ mgr.op = "delete_schedule"
    /\ mgr.outcome = "returned"
    /\ mgr.sent = 1
    /\ queue > 0

\* C4: update_last_run never publishes a reload notification: no step taken
\* while an update_last_run call is in flight changes the number of published
\* messages, whether or not the schedule is found, and when it is found the
\* returned call has stored the new last_run.
C4_LastRunNeverPublishes ==
    [][ /\ (mgr.op = "update_last_run" \/ mgr'.op = "update_last_run" =>
              published' = published)
        /\ (mgr'.op = "update_last_run" /\ mgr'.pc = "return" =>
              /\ mgr'.sent = 0
              /\ (mgr'.found =>
                    /\ mgr'.schedule_id \in DOMAIN schedules'
                    /\ schedules'[mgr'.schedule_id].last_run = Some(1))
              /\ (~mgr'.found => schedules' = schedules)) ]_vars

C4_Witness ==
    /\ mgr.op = "update_last_run"
    /\ mgr.pc = "return"
    /\ mgr.found
    /\ schedules[mgr.schedule_id].last_run = Some(1)
    /\ published > 0

\* the table has exactly one entry per row of the store, none for anything
\* else, and each entry carries its row's ids, tenant and keep_n
TableMatchesStore ==
    /\ \A r \in Rows :
          Cardinality({k \in DOMAIN table :
                          /\ table[k].kwargs.schedule_id = r.id
                          /\ table[k].kwargs.tenant_id = r.tenant_id
                          /\ table[k].kwargs.backup_source_id = r.source_id
                          /\ table[k].kwargs.backup_destination_id = r.destination_id
                          /\ table[k].kwargs.keep_n = r.keep_n}) = 1
    /\ Cardinality(DOMAIN table) = Cardinality(Rows)

\* C5: once the Dispatcher has finished a reload and the store has not been
\* mutated since that reload read it, the table holds exactly one entry per
\* Schedule row, none for a row no longer stored, each with the row's
\* source_id, destination_id, tenant_id, schedule id and keep_n.
C5_ReloadMirrorsStore ==
    (beat.pc = "idle" /\ beat.reloaded /\ beat.readVersion = version)
        => TableMatchesStore

C5_Witness ==
    /\ beat.pc = "idle"
    /\ beat.reloaded
    /\ beat.readVersion = version
    /\ Cardinality(Rows) = 2
    /\ \E r \in Rows : ~r.is_active

\* C6: reload idempotence: a reload that read the same store as the reload
\* finished before it leaves the table identical to the table that earlier
\* reload left.
C6_ReloadIdempotent ==
    [][ (beat.pc = "loaded" /\ beat'.pc = "idle"
            /\ beat.reloaded /\ beat.readVersion = beat.lastVersion)
          => table' = Val(beat.lastTable) ]_vars

C6_Witness ==
    /\ beat.pc = "idle"
    /\ beat.same
    /\ DOMAIN table # {}
    /\ Len(fired) > 0

\* C7: tenant isolation: a step of a call made with tenant_id T leaves every
\* row of another tenant in the store and unchanged, and the rows a call
\* returns all belong to T.
C7_TenantIsolation ==
    [][ /\ \A i \in DOMAIN schedules :
              schedules[i].tenant_id # mgr.tenant_id =>
                 i \in DOMAIN schedules' /\ schedules'[i] = schedules[i]
        /\ \A r \in mgr'.result : r.tenant_id = mgr'.tenant_id ]_vars

C7_Witness ==
    /\ mgr.pc = "return"
    /\ mgr.outcome = "not_found"
    /\ \E r \in Rows : r.id = mgr.schedule_id /\ r.tenant_id # mgr.tenant_id

(***************************************************************************)
(* Properties of create_backup                                             *)
(***************************************************************************)
\* the artifacts of the listing whose parsed source type is the run's
SameType(r) == {f \in Val(r.listed) : ParseFilename(f.name).source = r.source_type}

\* of the N same-type artifacts listed, exactly the N - K oldest were deleted
\* by the run, nothing else was, and the K newest are still stored
OldestDeleted(r) ==
    LET same == SameType(r)
        gone == {f \in same : f.name \in r.deleted}
    IN  /\ Cardinality(gone) = Cardinality(same) - Val(r.keep_n)
        /\ \A f \in gone, g \in same \ gone : f.modified <= g.modified
        /\ r.deleted = {f.name : f \in gone}
        /\ \A g \in same \ gone : g \in remote[r.url]

RetentionApplies(r) ==
    /\ r.pc = "done"
    /\ r.listed # Nil
    /\ r.keep_n # Nil
    /\ Val(r.keep_n) > 0
    /\ Cardinality(SameType(r)) > Val(r.keep_n)

\* C1: when keep_n = K is set and the listing holds N > K artifacts of the
\* triggering source's type, the run deletes exactly the N - K oldest of them
\* and the K newest remain, whatever artifacts of other types are present.
C1_RetentionDeletesOldest ==
    \A w \in DOMAIN exec : RetentionApplies(exec[w]) => OldestDeleted(exec[w])

\* the same, for the runs whose delete_backup calls all succeeded
RetentionWhenDeletesSucceed ==
    \A w \in DOMAIN exec :
        RetentionApplies(exec[w]) /\ ~exec[w].delete_failed => OldestDeleted(exec[w])

RetentionWhenDeletesSucceedWitness ==
    \E w \in DOMAIN exec :
        /\ RetentionApplies(exec[w])
        /\ ~exec[w].delete_failed
        /\ Cardinality(exec[w].deleted) = 2
        /\ \E f \in Val(exec[w].listed) : ParseFilename(f.name).source # exec[w].source_type

\* C2: once the Source adapter's create_backup has returned a local path,
\* that path does not exist when the operation ends, on every path out of
\* it: upload succeeded or raised, listing raised, a retention delete raised.
C2_LocalArtifactRemoved ==
    [][ \A w \in DOMAIN exec :
           (exec[w].pc # "done" /\ exec'[w].pc = "done" /\ exec'[w].local_path # Nil)
              => Val(exec'[w].local_path) \notin localFiles' ]_vars

C2_Witness ==
    \E w \in DOMAIN exec :
        /\ exec[w].pc = "done"
        /\ exec[w].delete_failed
        /\ exec[w].local_path # Nil
        /\ Val(exec[w].local_path) \notin localFiles

\* both ids name a record of the given tenant
Resolvable(r) ==
    /\ \E x \in Sources : x.id = r.backup_source_id /\ x.tenant_id = r.tenant_id
    /\ \E x \in Destinations : x.id = r.backup_destination_id /\ x.tenant_id = r.tenant_id

\* C8: an invocation whose source id or destination id matches no record of
\* the given tenant ends at once with the not-found error, before any
\* adapter is obtained, and no artifact is created, uploaded or deleted.
C8_NotFoundBeforeAdapters ==
    [][ \A w \in DOMAIN exec :
           (exec'[w].pc # "idle" /\ ~Resolvable(exec'[w])) =>
              /\ exec'[w].pc = "done"
              /\ exec'[w].error = "NoResultFound"
              /\ exec'[w].calls = {}
              /\ exec'[w].local_path = Nil
              /\ localFiles' = localFiles
              /\ remote' = remote ]_vars

C8_Witness ==
    \E w \in DOMAIN exec :
        /\ exec[w].pc = "done"
        /\ exec[w].error = "NoResultFound"
        /\ \E x \in Sources : x.id = exec[w].backup_source_id
                              /\ x.tenant_id # exec[w].tenant_id
        /\ \E x \in Destinations : x.id = exec[w].backup_destination_id
                                   /\ x.tenant_id = exec[w].tenant_id

\* a stored password or api_key that decrypt_str rejects
BadToken(entity) ==
    \/ entity.password # Nil /\ decrypt_str(Val(entity.password)).raised
    \/ entity.api_key # Nil /\ decrypt_str(Val(entity.api_key)).raised

DataCalls == {"create_backup", "upload_backup", "list_backups", "delete_backup"}

\* C9: when decrypting a stored credential of the Source or the Destination
\* fails, the invocation ends with the decryption error; the adapter that
\* credential is for is never given a substitute, and no create_backup,
\* upload_backup, list_backups or delete_backup call is made.  (The
\* Destination's credentials are decrypted only once the Source adapter has
\* been obtained.)
C9_DecryptionFailureIsFatal ==
    \A w \in DOMAIN exec :
        LET r == exec[w]
            src == CHOOSE x \in Sources :
                      x.id = r.backup_source_id /\ x.tenant_id = r.tenant_id
            dst == CHOOSE x \in Destinations :
                      x.id = r.backup_destination_id /\ x.tenant_id = r.tenant_id
        IN  (r.pc # "idle" /\ Resolvable(r)) =>
              /\ BadToken(src) =>
                    /\ r.pc = "done" /\ r.error = "ValueError"
                    /\ r.source_credentials = Nil /\ r.destination_credentials = Nil
                    /\ r.calls = {}
              /\ (~BadToken(src) /\ BadToken(dst)) =>
                    /\ r.pc = "done"
                    /\ r.error = "ValueError" \/ (r.error = "AdapterError"
                                                   /\ r.calls = {"BackupManager"})
                    /\ r.destination_credentials = Nil
                    /\ r.calls \cap DataCalls = {}
                    /\ r.calls \cap {"BackupDestinationManager"} = {}

C9_Witness ==
    \E w \in DOMAIN exec :
        /\ exec[w].pc = "done"
        /\ exec[w].error = "ValueError"
        /\ exec[w].decrypt_failed = "destination"
        /\ exec[w].calls = {"BackupManager"}

\* C10: retention is best-effort per artifact: when delete_backup fails for
\* one excess artifact, the run still attempts delete_backup on every other
\* excess artifact.
C10_PruneBestEffort ==
    \A w \in DOMAIN exec :
        (exec[w].pc = "done" /\ exec[w].delete_failed) =>
            \A i \in 1..Len(exec[w].excess) : exec[w].excess[i].name \in exec[w].attempted

\* the artifacts of the run's source type stored at the run's destination
SameTypeStored(r) ==
    {f \in remote[r.url] : ParseFilename(f.name).ok
                           /\ ParseFilename(f.name).source = r.source_type}

\* C11: a run triggered with keep_n = N, for every N >= 0 (N = 0 included),
\* leaves at most N artifacts of the triggering source's type at the
\* destination when it ends.  Stated for the runs that return the remote
\* key, where no failure stands between the run and its retention step.
C11_AtMostKeepN ==
    \A w \in DOMAIN exec :
        (exec[w].pc = "done" /\ exec[w].error = "none" /\ exec[w].keep_n # Nil)
            => Cardinality(SameTypeStored(exec[w])) <= Val(exec[w].keep_n)

\* the same, for N >= 1
AtMostKeepNWhenReturned ==
    \A w \in DOMAIN exec :
        (exec[w].pc = "done" /\ exec[w].error = "none" /\ exec[w].keep_n # Nil
         /\ Val(exec[w].keep_n) >= 1)
            => Cardinality(SameTypeStored(exec[w])) <= Val(exec[w].keep_n)

\* a run with keep_n = 0 returned and left the artifacts where they were
KeepZeroWitness ==
    \E w \in DOMAIN exec :
        /\ exec[w].pc = "done" /\ exec[w].error = "none"
        /\ exec[w].keep_n = Some(0)
        /\ exec[w].deleted = {}
        /\ Cardinality(SameTypeStored(exec[w])) = 3

\* upload_backup was called and gave no remote key
UploadFailed(r) == "upload_backup" \in r.calls /\ r.remote_path = Nil

C13_PruneFailureNotMasking ==
    \A w \in DOMAIN exec :
        (exec[w].pc = "done" /\ exec[w].remote_path # Nil /\ exec[w].delete_failed)
            => exec[w].error = "none" /\ exec[w].result = exec[w].remote_path

\* C20: create_schedule and update_schedule reject a cron expression that
\* does not have exactly 5 fields: the store is left unchanged and nothing
\* is published, so no schedule with a wrong field count reaches the store.
C20_CronValidatedOnWrite ==
    \A row \in Rows : Len(Split(row.schedule)) = 5

\* the artifact names a run has formatted, with the fields that went in
Formatted(r) == OriginalFields(r.source_type, r.tenant_id, r.schedule_id, r.backup_source_id)

\* C16: formatting an artifact name as the Source adapters do and parsing it
\* with _parse_filename recovers the original source_type, tenant_id,
\* schedule_id (None as the absent value) and source_id exactly.
C16_FilenameRoundTrip ==
    \A w \in DOMAIN exec :
        exec[w].local_path # Nil =>
            /\ ParseFilename(Val(exec[w].local_path)).ok
            /\ ParsedFields(Val(exec[w].local_path)) = Formatted(exec[w])

\* what does hold: the name parses, and every recovered field is the text
\* the original value was formatted as
RoundTripAsText ==
    \A w \in DOMAIN exec :
        exec[w].local_path # Nil =>
            LET got == ParsedFields(Val(exec[w].local_path))
                was == Formatted(exec[w])
            IN  /\ ParseFilename(Val(exec[w].local_path)).ok
                /\ \A k \in {"source", "tenant_id", "schedule_id", "source_id"} :
                      PyText(got[k]) = PyText(was[k])

(***************************************************************************)
(* Properties of the Destination adapters                                  *)
(***************************************************************************)
\* C14: atomic upload: for every Destination adapter, a list_backups that
\* runs while an upload_backup is in progress never returns a partially
\* written artifact under its final name (nor a provisional name): an
\* artifact is listed only once it is completely written.
C14_AtomicUpload ==
    adapter.listing # Nil => Val(adapter.listing).partial = {}

\* C15: listing fails closed: for every Destination adapter, list_backups
\* raises when the destination holds a file whose name does not match the
\* filename convention; such a file is never silently skipped.
C15_ListingFailsClosed ==
    adapter.listing # Nil =>
        ((\E n \in Val(adapter.listing).seen : ~ParseFilename(n).ok)
            => Val(adapter.listing).raised)

\* what does hold of every adapter: a file whose name does not parse is
\* never among the backups returned, so retention never selects it
UnparsedNeverReturned ==
    adapter.listing # Nil =>
        \A n \in Val(adapter.listing).names : ParseFilename(n).ok

\* C17: every artifact a run stores at a destination has a name matching
\* the filename convention, for every Source adapter type and every
\* Destination adapter type.
C17_StoredNamesMatch ==
    \A f \in adapter.files : (f.stored /\ f.complete) => ParseFilename(f.name).ok

\* what does hold: the names the qdrant and elasticsearch adapters format
\* match the convention under every destination, renamed by local_fs or not
FormattedNamesMatch ==
    \A f \in adapter.files :
        (f.stored /\ f.name[1] \in {"qdrant", "elasticsearch"}) => ParseFilename(f.name).ok

(***************************************************************************)
(* Properties of restore_from_backup                                       *)
(***************************************************************************)
\* C18: Restore backup returns False only when restore_from_backup on the
\* Source adapter fails; a record not found, a decryption failure or a
\* get_backup failure raises instead of returning a boolean.
C18_FalseOnlyFromRestore ==
    (restore.pc = "done" /\ restore.result = Some(FALSE))
        => restore.failed_at = "restore_from_backup"

\* what does hold: the task never raises, every failure becomes False
RestoreAlwaysReturns ==
    restore.pc = "done" =>
        /\ restore.result # Nil
        /\ restore.result = Some(TRUE) <=> restore.failed_at = "none"

\* C19: Restore backup always removes the local copy: no local file written
\* by get_backup for this invocation exists when the operation ends, also
\* when get_backup itself failed after starting to write the file.
C19_LocalCopyRemoved ==
    (restore.pc = "done" /\ restore.written # Nil)
        => Val(restore.written) \notin localFiles

\* what does hold: once get_backup has returned a path, that path is gone
\* when the operation ends, whether restore_from_backup succeeded or failed
ReturnedCopyRemoved ==
    (restore.pc = "done" /\ restore.local_path # Nil)
        => Val(restore.local_path) \notin localFiles

\* C28: update_schedule, delete_schedule, toggle_schedule and update_last_run
\* called with a (schedule_id, tenant_id) pair that no row carries return the
\* not-found value (False for delete_schedule, None for the others), leave
\* every row as it was and publish nothing on the reload topic
TargetedOps == {"update_schedule", "delete_schedule", "toggle_schedule", "update_last_run"}

NoRowUnder(schedule_id, tenant_id) ==
    \A i \in DOMAIN schedules :
        ~(schedules[i].id = schedule_id /\ schedules[i].tenant_id = tenant_id)

C28_NotFoundIsInert ==
    [][/\ (/\ mgr.pc = "idle"
           /\ mgr'.pc # "idle"
           /\ mgr'.op \in TargetedOps
           /\ NoRowUnder(mgr'.schedule_id, mgr'.tenant_id))
          => /\ mgr'.pc = "return"
             /\ mgr'.value = (IF mgr'.op = "delete_schedule" THEN "False" ELSE "None")
             /\ ~mgr'.committed
             /\ mgr'.sent = 0
       /\ (mgr.value \in {"None", "False"} /\ mgr.op \in TargetedOps)
          => /\ mgr' \in {mgr, MgrIdle}
             /\ schedules' = schedules
             /\ version' = version
             /\ published' = published]_vars

\* toggle_schedule has returned None for an id that exists under another tenant
C28_Witness ==
    /\ mgr.pc = "return"
    /\ mgr.op = "toggle_schedule"
    /\ mgr.value = "None"
    /\ \E i \in DOMAIN schedules :
          schedules[i].id = mgr.schedule_id /\ schedules[i].tenant_id # mgr.tenant_id
\* C21: a stored schedule whose cron expression does not have five fields
\* fails alone when the table is built at startup or on a reload: the
\* Dispatcher and its listener keep running, and once a load has read the
\* current rows every well-formed schedule is in the table
WellFormed(row) == Len(Split(row.schedule)) = 5

C21_MalformedEntryFailsAlone ==
    /\ beat.pc \notin {"crashed", "dead"}
    /\ (beat.pc = "idle" /\ beat.readVersion = version)
          => \A r \in Rows : WellFormed(r) => ScheduleKey(r) \in DOMAIN table

\* C26: a schedule whose is_active is false is not scheduled: once a load has
\* read the current rows (after a toggle or an update set is_active to false
\* and the reload was processed) the table holds no entry for it, so nothing
\* fires it; an entry is there again only when the row is active again
C26_InactiveNeverScheduled ==
    (beat.pc = "idle" /\ beat.readVersion = version)
       => \A r \in Rows : ~r.is_active => ScheduleKey(r) \notin DOMAIN table

\* C29: the retention of a run for source S of tenant T deletes only artifacts
\* whose name parses to source_id S and tenant_id T; an artifact of another
\* source or another tenant of the same type is never deleted
C29_RetentionStaysInScope ==
    \A w \in Workers : \A n \in exec[w].deleted :
        LET p == ParseFilename(n)
        IN  /\ p.ok
            /\ p.tenant_id = exec[w].tenant_id
            /\ p.source_id = IdStr(exec[w].backup_source_id)

\* C22: the job the Dispatcher fires for a table entry is create_backup with
\* exactly the schedule's source_id, destination_id, tenant_id, schedule_id
\* and keep_n, and that argument record is one the task accepts
C22_FiredJobAccepted ==
    \A i \in DOMAIN fired :
        LET job == fired[i]
        IN  /\ DOMAIN job.kwargs = {"backup_source_id", "backup_destination_id",
                                    "tenant_id", "schedule_id", "keep_n"}
            /\ job.task \in TaskNames
            /\ Accepts(TaskSignature(job.task), job.kwargs)

\* C23: a registry asked for a type tag it does not know fails with
\* UnsupportedAdapterType, and no adapter is constructed
C23_UnknownTagRejected ==
    /\ ("BackupManager" \in restore.calls /\ restore.source_type \notin SourceTypeTags)
          => /\ restore.error = "UnsupportedAdapterType"
             /\ restore.source_adapters = {}
    /\ ("BackupDestinationManager" \in restore.calls
          /\ restore.destination_type \notin DestinationTypeTags)
          => /\ restore.error = "UnsupportedAdapterType"
             /\ restore.destination_adapters = {}

\* C27: BackupManager.create_from_type (and the Destination registry) asked
\* for a known tag T constructs the adapter of T and no other, and fails at
\* construction only when T's own constructor fails
C27_OnlySelectedAdapterBuilt ==
    /\ ("BackupManager" \in restore.calls /\ restore.source_type \in SourceTypeTags)
          => /\ restore.source_adapters \subseteq {restore.source_type}
             /\ ("BackupDestinationManager" \notin restore.calls
                   /\ restore.ctor_failed # Nil)
                   => restore.ctor_failed = Some(restore.source_type)
    /\ ("BackupDestinationManager" \in restore.calls
          /\ restore.destination_type \in DestinationTypeTags)
          => /\ restore.destination_adapters \subseteq {restore.destination_type}
             /\ restore.ctor_failed # Nil
                   => restore.ctor_failed = Some(restore.destination_type)

\* C25: the reload listener survives a broker disconnect: its thread does not
\* end with the connection, so that it reconnects and a notification
\* published afterwards is delivered to _reload
C25_ListenerSurvivesDisconnect == beat.pc # "lost"

\* C24: invocations of an Executor operation that overlap in time use
\* different database sessions: no session object is read through by two
\* invocations that are in progress together
C24_OwnSessionPerInvocation ==
    \A v \in DOMAIN exec : \A w \in DOMAIN exec :
        (v # w /\ exec[v].pc # "idle" /\ exec[w].pc # "idle")
           => exec[v].session # exec[w].session

\* C30: two create_backup invocations that overlap in time never work on the
\* same local artifact path, also for the same tenant, source and schedule_id
\* within one second, so the cleanup of one cannot delete the artifact the
\* other is still uploading
C30_DistinctLocalPaths ==
    \A v \in DOMAIN exec : \A w \in DOMAIN exec :
        (v # w /\ exec[v].local_path # Nil /\ exec[w].local_path # Nil
           /\ exec[v].pc \in {"upload", "list", "prune", "cleanup"}
           /\ exec[w].pc \in {"upload", "list", "prune", "cleanup"})
           => exec[v].local_path # exec[w].local_path
====
